---- MODULE Spec2Model ----
(***************************************************************************)
(* YouTubeChannelShop (src/src/index.ts): a ShopRAG shop that lists the    *)
(* videos of one channel, filters them, and returns the add/delete         *)
(* entries that bring the host's store in line with the filtered catalog.  *)
(*                                                                         *)
(* Representation.                                                         *)
(*  - Text that the code parses (durations, dropAfter, numeric options,    *)
(*    titles, title patterns) is a sequence of one-character strings.      *)
(*  - Text that the code only concatenates (ids, modes, file ids, content) *)
(*    is a TLA+ string.                                                    *)
(*  - An optional value is <<>> (undefined) or <<v>>.                      *)
(*  - Instants and spans of time are whole seconds; the source's           *)
(*    millisecond values are these times 1000 (a 32-bit checker cannot     *)
(*    hold one year in milliseconds).                                      *)
(*  - A Date is its instant; a RegExp is a literal pattern searched        *)
(*    anywhere in the subject.                                             *)
(***************************************************************************)
EXTENDS Integers, Sequences, FiniteSets, TLC

VARIABLES
    config,          \* the shop's entry in shoprag.json, handed to init
    credentials,     \* the youtube_api_key credential the host hands to init
    phase,           \* "constructed", "ready" (init returned), "failed" (init threw)
    initError,       \* the message of the Error init threw, or <<>>
    channelId,       \* this.channelId
    mode,            \* this.mode
    noDelete,        \* this.noDelete
    includeHeader,   \* this.includeHeader
    filters,         \* this.filters
    videos,          \* the videos the channel lists now (the remote catalog)
    now,             \* the wall clock, in seconds
    apiUp,           \* the YouTube Data API answered the last update's calls
    existingFiles,   \* the keys of the host's store for this shop
    pc,              \* "idle", or "returned": update has returned, the host has not applied it
    updates,         \* what the last update returned
    errorLogged,     \* the last update ran its catch block (console.error)
    filteredVideos,  \* the outcome of the last applyFilters (the ids it kept)
    probe            \* inputs and outputs of the pure-function specifications

vars == <<config, credentials, phase, initError, channelId, mode, noDelete, includeHeader,
          filters, videos, now, apiUp, existingFiles, pc, updates,
          errorLogged, filteredVideos, probe>>

shopVars == <<phase, initError, channelId, mode, noDelete, includeHeader, filters>>

----------------------------------------------------------------------------
(* Values *)

None == <<>>

Some(v) == <<v>>

NaN == -1

Digits == {"0", "1", "2", "3", "4", "5", "6", "7", "8", "9"}

DigitVal(c) ==
    CASE c = "0" -> 0 [] c = "1" -> 1 [] c = "2" -> 2 [] c = "3" -> 3
      [] c = "4" -> 4 [] c = "5" -> 5 [] c = "6" -> 6 [] c = "7" -> 7
      [] c = "8" -> 8 [] c = "9" -> 9

\* The number of digits s starts with, from position i on.
RECURSIVE DigitRun(_, _)
DigitRun(s, i) ==
    IF i <= Len(s) /\ s[i] \in Digits THEN 1 + DigitRun(s, i + 1) ELSE 0

RECURSIVE DigitsValue(_, _, _)
DigitsValue(s, i, n) ==
    IF n = 0 THEN 0 ELSE DigitsValue(s, i, n - 1) * 10 + DigitVal(s[i + n - 1])

\* parseInt(s, 10) for text without sign or leading blanks: the leading
\* digits' value, NaN when there is none.
ParseInt(s) ==
    IF DigitRun(s, 1) = 0 THEN NaN ELSE DigitsValue(s, 1, DigitRun(s, 1))

\* A character sequence as a string.
RECURSIVE Str(_)
Str(s) == IF s = <<>> THEN "" ELSE Head(s) \o Str(Tail(s))

\* JavaScript truthiness of an optional string / an optional number.
TruthyText(o) == o # None /\ o[1] # <<>>

TruthyNumber(o) == o # None /\ o[1] # 0 /\ o[1] # NaN

\* RegExp.prototype.test for a literal pattern: the pattern occurs in the subject.
RegExpTest(pattern, subject) ==
    \E i \in 1..(Len(subject) - Len(pattern) + 1) :
        SubSeq(subject, i, i + Len(pattern) - 1) = pattern

----------------------------------------------------------------------------
(* parseDuration *)

\* The first position where "PT" starts, 0 when there is none.
MatchStart(duration) ==
    LET starts == {i \in 1..(Len(duration) - 1) :
                       duration[i] = "P" /\ duration[i + 1] = "T"}
    IN IF starts = {} THEN 0 ELSE CHOOSE i \in starts : \A j \in starts : i <= j

\* The optional group (\d+<letter>)? tried at position i: the number of
\* characters it takes (0 when it does not match).
GroupLen(duration, i, letter) ==
    LET n == DigitRun(duration, i)
    IN IF n >= 1 /\ i + n <= Len(duration) /\ duration[i + n] = letter
       THEN n + 1 ELSE 0

GroupValue(duration, i, letter) ==
    IF GroupLen(duration, i, letter) = 0 THEN 0
    ELSE ParseInt(SubSeq(duration, i, i + GroupLen(duration, i, letter) - 1))

\* Mutant of parseDuration: the minutes are not scaled to seconds.
parseDurationMinutesUnscaled(duration) ==
    IF MatchStart(duration) = 0 THEN 0
    ELSE LET h == MatchStart(duration) + 2
             m == h + GroupLen(duration, h, "H")
             s == m + GroupLen(duration, m, "M")
         IN GroupValue(duration, h, "H") * 3600 + GroupValue(duration, m, "M")
                + GroupValue(duration, s, "S")

parseDuration(duration) ==
    IF MatchStart(duration) = 0 THEN 0
    ELSE LET h == MatchStart(duration) + 2
             m == h + GroupLen(duration, h, "H")
             s == m + GroupLen(duration, m, "M")
             hours == GroupValue(duration, h, "H")
             minutes == GroupValue(duration, m, "M")
             seconds == GroupValue(duration, s, "S")
         IN hours * 3600 + minutes * 60 + seconds

----------------------------------------------------------------------------
(* parseDropAfter, shouldDropVideo *)

SecondsPerDay == 24 * 60 * 60

DropUnits == {"d", "w", "m", "y"}

DropUnit(dropAfter) ==
    IF dropAfter = <<>> THEN "" ELSE dropAfter[Len(dropAfter)]

parseDropAfterThrows(dropAfter) == DropUnit(dropAfter) \notin DropUnits

UnitDays(unit) ==
    CASE unit = "d" -> 1
      [] unit = "w" -> 7
      [] unit = "m" -> 30
      [] unit = "y" -> 365

\* Defined where parseDropAfter does not throw.
parseDropAfter(dropAfter) ==
    LET unit == DropUnit(dropAfter)
        value == ParseInt(SubSeq(dropAfter, 1, Len(dropAfter) - 1))
    IN IF value = NaN THEN NaN ELSE value * UnitDays(unit) * SecondsPerDay

shouldDropVideoThrows(f, publishedAt) ==
    TruthyText(f.dropAfter) /\ parseDropAfterThrows(f.dropAfter[1])

\* Mutant of shouldDropVideo: the age is never compared.
shouldDropVideoNever(f, publishedAt, t) == FALSE

\* Mutant of shouldDropVideo: an item is dropped at the threshold already.
shouldDropVideoAtThreshold(f, publishedAt, t) ==
    IF ~TruthyText(f.dropAfter) THEN FALSE
    ELSE LET age == t - publishedAt
             dropDuration == parseDropAfter(f.dropAfter[1])
         IN dropDuration # NaN /\ age >= dropDuration

shouldDropVideo(f, publishedAt, t) ==
    IF ~TruthyText(f.dropAfter) THEN FALSE
    ELSE LET age == t - publishedAt
             dropDuration == parseDropAfter(f.dropAfter[1])
         IN dropDuration # NaN /\ age > dropDuration

----------------------------------------------------------------------------
(* applyFilters *)

\* this.parseDuration(video.contentDetails.duration), 0 without a duration.
VideoDuration(video) ==
    IF TruthyText(video.duration) THEN parseDuration(video.duration[1]) ELSE 0

\* The callback applyFilters hands to Array.filter: "keep" (true), "drop"
\* (false) or "throw" (parseDropAfter threw inside shouldDropVideo).
FilterCallback(video, f, t) ==
    LET title == video.title
        publishedAt == video.publishedAt
        duration == VideoDuration(video)
    IN IF f.titleIncludes # None /\ TruthyText(title)
            /\ ~RegExpTest(f.titleIncludes[1], title[1]) THEN "drop"
       ELSE IF f.startDate # None /\ publishedAt # None
            /\ publishedAt[1] < f.startDate[1] THEN "drop"
       ELSE IF TruthyNumber(f.durationMoreThan)
            /\ duration < f.durationMoreThan[1] THEN "drop"
       ELSE IF TruthyNumber(f.durationLessThan)
            /\ duration > f.durationLessThan[1] THEN "drop"
       ELSE IF TruthyText(f.dropAfter) /\ publishedAt # None
       THEN IF shouldDropVideoThrows(f, publishedAt[1]) THEN "throw"
            ELSE IF shouldDropVideo(f, publishedAt[1], t) THEN "drop"
            ELSE "keep"
       ELSE "keep"

applyFiltersThrows(vs, f, t) ==
    \E i \in 1..Len(vs) : FilterCallback(vs[i], f, t) = "throw"

\* Defined where applyFilters does not throw.
applyFilters(vs, f, t) ==
    LET Keep(video) == FilterCallback(video, f, t) = "keep"
    IN SelectSeq(vs, Keep)

Ids(vs) == [i \in 1..Len(vs) |-> vs[i].id]

----------------------------------------------------------------------------
(* init *)

InitApiKeyError == "YouTube API key is required."

InitChannelError == "channelId is required in config."

\* Mutant of TruthyString: only undefined counts as missing.
TruthyStringDefinedOnly(o) == o # None

TruthyString(o) == o # None /\ o[1] # ""

\* this.filters as init builds it from the config.
InitFilters(cfg) ==
    [titleIncludes |-> IF TruthyText(cfg.titleIncludes)
                       THEN cfg.titleIncludes ELSE None,
     durationMoreThan |-> IF TruthyText(cfg.durationMoreThan)
                          THEN Some(ParseInt(cfg.durationMoreThan[1])) ELSE None,
     durationLessThan |-> IF TruthyText(cfg.durationLessThan)
                          THEN Some(ParseInt(cfg.durationLessThan[1])) ELSE None,
     dropAfter |-> cfg.dropAfter,
     startDate |-> cfg.startDate]

InitFails(apiKey, cfg) ==
    ~TruthyString(apiKey) \/ ~TruthyString(cfg.channelId)

init ==
    /\ phase = "constructed"
    /\ IF ~TruthyString(credentials)
       THEN /\ phase' = "failed"
            /\ initError' = Some(InitApiKeyError)
            /\ UNCHANGED <<channelId, mode, noDelete, includeHeader, filters>>
       ELSE IF ~TruthyString(config.channelId)
       THEN /\ phase' = "failed"
            /\ initError' = Some(InitChannelError)
            /\ channelId' = config.channelId
            /\ UNCHANGED <<mode, noDelete, includeHeader, filters>>
       ELSE /\ phase' = "ready"
            /\ initError' = None
            /\ channelId' = config.channelId[1]
            /\ mode' = IF TruthyString(config.mode) THEN config.mode[1] ELSE "metadata"
            /\ noDelete' = (config.noDelete = Some(TRUE))
            /\ includeHeader' = (config.includeHeader # Some(FALSE))
            /\ filters' = InitFilters(config)
    /\ UNCHANGED <<config, credentials, videos, now, apiUp, existingFiles, pc, updates,
                   errorLogged, filteredVideos, probe>>

----------------------------------------------------------------------------
(* Content fetchers *)

Modes == {"metadata", "thumbnail", "transcript", "video", "audio"}

OrElse(o, default) == IF TruthyText(o) THEN Str(o[1]) ELSE default

OrElseString(o, default) == IF TruthyString(o) THEN o[1] ELSE default

\* JSON.stringify(video.snippet), the snippet reduced to title and publishedAt.
getMetadataContent(video) ==
    "{title:" \o OrElse(video.title, "") \o ",publishedAt:"
        \o (IF video.publishedAt = None THEN "" ELSE ToString(video.publishedAt[1]))
        \o "}"

getThumbnailContent(video) == OrElseString(video.thumbnail, "")

getVideoContent(videoId) == "https://www.youtube.com/watch?v=" \o videoId

getAudioContent(videoId) == "Audio extraction not yet implemented"

TranscriptFallback == "Transcript not available"

\* video.transcript is what YoutubeTranscript.fetchTranscript yields for the
\* video: <<text>>, or <<>> when the fetch throws.
getTranscriptContent(video, withHeader) ==
    IF video.transcript = None THEN TranscriptFallback
    ELSE IF withHeader
    THEN "YouTube video: " \o OrElse(video.title, "Unknown Title")
         \o "\nVideo URL: " \o getVideoContent(video.id)
         \o "\nUploaded by: " \o OrElseString(video.channelTitle, "Unknown Channel")
         \o "\nDate: " \o (IF video.publishedAt = None THEN "Unknown Date"
                           ELSE ToString(video.publishedAt[1]))
         \o "\nVideo transcript follows:\n" \o video.transcript[1]
         \o "\n[end of video]"
    ELSE video.transcript[1]

\* The switch on this.mode in update's second loop.
ContentThrows(m) == m \notin Modes

Content(video, m, withHeader) ==
    CASE m = "metadata" -> getMetadataContent(video)
      [] m = "thumbnail" -> getThumbnailContent(video)
      [] m = "transcript" -> getTranscriptContent(video, withHeader)
      [] m = "video" -> getVideoContent(video.id)
      [] m = "audio" -> getAudioContent(video.id)

----------------------------------------------------------------------------
(* update *)

FileId(cid, videoId, m) ==
    "youtube-channel-" \o cid \o "-" \o videoId \o "-" \o m

EmptyUpdates == [k \in {} |-> None]

Put(u, k, v) == [x \in DOMAIN u \cup {k} |-> IF x = k THEN v ELSE u[x]]

\* First loop: the file ids of the filtered videos.
CurrentFileIds(filtered, cid, m) ==
    {FileId(cid, filtered[i].id, m) : i \in 1..Len(filtered)}

\* Mutant of NewVideos: the lookup in existingFiles is lost.
NewVideosAll(filtered, existing, cid, m) == filtered

\* First loop: the filtered videos whose file id is no key of existingFiles.
NewVideos(filtered, existing, cid, m) ==
    LET IsNew(video) == FileId(cid, video.id, m) \notin existing
    IN SelectSeq(filtered, IsNew)

\* The outcome of a computation that may throw.
Ok(v) == [threw |-> FALSE, value |-> v]

Throw == [threw |-> TRUE]

\* Mutant of AddLoop: a transcript fetch that fails is not caught.
AddLoopTranscriptThrows(newVideos, i, u, cid, m, withHeader) ==
    IF newVideos = <<>> THEN Ok(u)
    ELSE IF ContentThrows(m) THEN Throw
    ELSE IF m = "transcript"
            /\ \E j \in 1..Len(newVideos) : newVideos[j].transcript = None
    THEN Throw
    ELSE Ok([k \in {FileId(cid, newVideos[j].id, m) : j \in 1..Len(newVideos)} |->
                LET j == CHOOSE j \in 1..Len(newVideos) :
                             FileId(cid, newVideos[j].id, m) = k
                IN [action |-> "add",
                    content |-> Content(newVideos[j], m, withHeader)]])

\* Mutant of AddLoop: every entry carries the content of the first new video.
AddLoopFirstContent(newVideos, i, u, cid, m, withHeader) ==
    IF ContentThrows(m) /\ newVideos # <<>> THEN Throw
    ELSE Ok([k \in {FileId(cid, newVideos[j].id, m) : j \in 1..Len(newVideos)} |->
                [action |-> "add",
                 content |-> Content(newVideos[1], m, withHeader)]])

\* Second loop over newVideos[i..]: the updates it builds on top of u, unless
\* the switch throws.
RECURSIVE AddLoop(_, _, _, _, _, _)
AddLoop(newVideos, i, u, cid, m, withHeader) ==
    IF i > Len(newVideos) THEN Ok(u)
    ELSE IF ContentThrows(m) THEN Throw
    ELSE AddLoop(newVideos, i + 1,
                 Put(u, FileId(cid, newVideos[i].id, m),
                     [action |-> "add",
                      content |-> Content(newVideos[i], m, withHeader)]),
                 cid, m, withHeader)

\* Mutant of DeleteLoop: the test against the current file ids is inverted.
DeleteLoopInverted(u, existing, current) ==
    [k \in DOMAIN u \cup (existing \cap current) |->
        IF k \in existing \cap current THEN [action |-> "delete"] ELSE u[k]]

\* Mutant of DeleteLoop: the test against the current file ids is lost.
DeleteLoopAll(u, existing, current) ==
    [k \in DOMAIN u \cup existing |->
        IF k \in existing THEN [action |-> "delete"] ELSE u[k]]

\* Third loop: a delete entry for every key of existingFiles that is no
\* current file id.
DeleteLoop(u, existing, current) ==
    [k \in DOMAIN u \cup (existing \ current) |->
        IF k \in existing \ current THEN [action |-> "delete"] ELSE u[k]]

\* Mutant of TryUpdate: the noDelete flag is not consulted.
TryUpdateAlwaysDeletes(up, vs, existing, t, cid, m, nd, withHeader, f) ==
    IF ~up THEN Throw
    ELSE IF applyFiltersThrows(vs, f, t) THEN Throw
    ELSE LET filtered == applyFilters(vs, f, t)
             current == CurrentFileIds(filtered, cid, m)
             added == AddLoop(NewVideos(filtered, existing, cid, m), 1,
                              EmptyUpdates, cid, m, withHeader)
         IN IF added.threw THEN Throw
            ELSE Ok(DeleteLoop(added.value, existing, current))

\* Mutant of TryUpdate: an item whose filtering or content fetch throws is
\* skipped and the run goes on.
TryUpdateSkipsFailures(up, vs, existing, t, cid, m, nd, withHeader, f) ==
    IF ~up THEN Throw
    ELSE LET filtered == applyFilters(vs, f, t)
             current == CurrentFileIds(filtered, cid, m)
             added == IF ContentThrows(m) THEN Ok(EmptyUpdates)
                      ELSE AddLoop(NewVideos(filtered, existing, cid, m), 1,
                                   EmptyUpdates, cid, m, withHeader)
         IN IF ~nd THEN Ok(DeleteLoop(added.value, existing, current))
            ELSE added

\* The body of update's try block. up says whether search.list and
\* videos.list answer (they reject otherwise).
TryUpdate(up, vs, existing, t, cid, m, nd, withHeader, f) ==
    IF ~up THEN Throw
    ELSE IF applyFiltersThrows(vs, f, t) THEN Throw
    ELSE LET filtered == applyFilters(vs, f, t)
             current == CurrentFileIds(filtered, cid, m)
             added == AddLoop(NewVideos(filtered, existing, cid, m), 1,
                              EmptyUpdates, cid, m, withHeader)
         IN IF added.threw THEN Throw
            ELSE IF ~nd THEN Ok(DeleteLoop(added.value, existing, current))
            ELSE added

\* update, with its catch block.
update(up) ==
    /\ phase = "ready"
    /\ pc = "idle"
    /\ apiUp' = up
    /\ LET result == TryUpdate(up, videos, existingFiles, now, channelId,
                               mode, noDelete, includeHeader, filters)
       IN /\ errorLogged' = result.threw
          /\ updates' = IF result.threw THEN EmptyUpdates ELSE result.value
    /\ filteredVideos' = IF ~up THEN filteredVideos
                         ELSE IF applyFiltersThrows(videos, filters, now) THEN Throw
                         ELSE Ok(Ids(applyFilters(videos, filters, now)))
    /\ pc' = "returned"
    /\ UNCHANGED <<config, credentials, shopVars, videos, now, existingFiles, probe>>

----------------------------------------------------------------------------
(* The host and the world around the shop *)

\* The host applies a returned ChangeSet to its store: added keys are
\* inserted, deleted keys are removed.
ApplyChanges(existing, u) ==
    (existing \cup {k \in DOMAIN u : u[k].action = "add"})
        \ {k \in DOMAIN u : u[k].action = "delete"}

HostApply ==
    /\ pc = "returned"
    /\ existingFiles' = ApplyChanges(existingFiles, updates)
    /\ pc' = "idle"
    /\ UNCHANGED <<config, credentials, shopVars, videos, now, apiUp, updates, errorLogged,
                   filteredVideos, probe>>

T0 == 1000 * SecondsPerDay

NowValues == {T0, T0 + 1, T0 + 35 * SecondsPerDay}

Tutorial == <<"t", "u", "t", "o", "r", "i", "a", "l">>

Vlog == <<"v", "l", "o", "g">>

\* The videos the channel may list, in the order the API lists them.
Library ==
    << [id |-> "v1", title |-> Some(Tutorial), channelTitle |-> Some("Chan"),
        publishedAt |-> Some(T0 - 365 * SecondsPerDay),
        duration |-> Some(<<"P", "T", "1", "0", "M", "5", "0", "S">>),
        thumbnail |-> Some("https://i.ytimg.com/vi/v1/hq.jpg"),
        transcript |-> Some("hello")],
       [id |-> "v2", title |-> None, channelTitle |-> None,
        publishedAt |-> Some(T0 - 10 * SecondsPerDay),
        duration |-> Some(<<"P", "T", "5", "M">>),
        thumbnail |-> None,
        transcript |-> None],
       [id |-> "v3", title |-> Some(Vlog), channelTitle |-> Some("Chan"),
        publishedAt |-> Some(T0 - 400 * SecondsPerDay),
        duration |-> Some(<<"P", "T", "1", "H", "2", "M", "3", "S">>),
        thumbnail |-> Some("https://i.ytimg.com/vi/v3/hq.jpg"),
        transcript |-> None] >>

Listing(S) ==
    LET Listed(video) == video.id \in S
    IN SelectSeq(Library, Listed)

LibraryIds == {Library[i].id : i \in 1..Len(Library)}

\* A video is published on, or removed from, the channel.
CatalogChange ==
    /\ pc = "idle"
    /\ \E id \in LibraryIds :
          LET listed == {videos[i].id : i \in 1..Len(videos)}
          IN videos' = Listing(IF id \in listed THEN listed \ {id}
                               ELSE listed \cup {id})
    /\ UNCHANGED <<config, credentials, shopVars, now, apiUp, existingFiles, pc, updates,
                   errorLogged, filteredVideos, probe>>

Tick ==
    /\ pc = "idle"
    /\ \E t \in NowValues : t > now /\ now' = t
    /\ UNCHANGED <<config, credentials, shopVars, videos, apiUp, existingFiles, pc, updates,
                   errorLogged, filteredVideos, probe>>

----------------------------------------------------------------------------
(* Configurations *)

NoFilters ==
    [titleIncludes |-> None, durationMoreThan |-> None,
     durationLessThan |-> None, dropAfter |-> None, startDate |-> None]

Tut == <<"t", "u", "t">>

\* The filter options of the configurations of Spec.
FilterOptions ==
    { NoFilters,
      [NoFilters EXCEPT !.titleIncludes = Some(Tut)],
      [NoFilters EXCEPT !.dropAfter = Some(<<"1", "y">>)],
      [NoFilters EXCEPT !.dropAfter = Some(<<"1", "x">>)],
      [NoFilters EXCEPT !.durationLessThan = Some(<<"6", "0", "0">>)],
      [NoFilters EXCEPT !.titleIncludes = Some(Tut),
                        !.dropAfter = Some(<<"1", "y">>)] }

MakeConfig(cid, m, nd, ih, fo) ==
    [channelId |-> cid, mode |-> m, noDelete |-> nd, includeHeader |-> ih,
     titleIncludes |-> fo.titleIncludes,
     durationMoreThan |-> fo.durationMoreThan,
     durationLessThan |-> fo.durationLessThan,
     dropAfter |-> fo.dropAfter, startDate |-> fo.startDate]

ModeOptions ==
    {None, Some("thumbnail"), Some("transcript"), Some("video"), Some("audio"),
     Some("bogus")}

Configs ==
    {MakeConfig(Some("chan"), m, nd, ih, fo) :
        m \in ModeOptions, nd \in {None, Some(TRUE)}, ih \in {None},
        fo \in FilterOptions}
    \cup {MakeConfig(Some("chan"), Some("transcript"), nd, Some(FALSE), NoFilters) :
            nd \in {None, Some(TRUE)}}
    \cup {MakeConfig(cid, None, None, None, NoFilters) : cid \in {None, Some("")}}

Credentials == {None, Some(""), Some("KEY")}

\* Keys the store may hold from before: of a video the channel no longer
\* lists, and of a listed video in another mode.
OldKeys ==
    {FileId("chan", "gone", "video"), FileId("chan", "v1", "metadata")}

----------------------------------------------------------------------------
(* The shop's life: construction, init, then update runs whose ChangeSets  *)
(* the host applies, while the channel and the clock move.                 *)

Init ==
    /\ config \in Configs
    /\ credentials \in Credentials
    /\ phase = "constructed"
    /\ initError = None
    /\ channelId = None
    /\ mode = None
    /\ noDelete = FALSE
    /\ includeHeader = TRUE
    /\ filters = None
    /\ videos \in {Listing(S) : S \in SUBSET LibraryIds}
    /\ now = T0
    /\ apiUp = TRUE
    /\ existingFiles \in SUBSET OldKeys
    /\ pc = "idle"
    /\ updates = EmptyUpdates
    /\ errorLogged = FALSE
    /\ filteredVideos = Ok(<<>>)
    /\ probe = None

Next ==
    \/ init
    \/ \E up \in BOOLEAN : update(up)
    \/ HostApply
    \/ CatalogChange
    \/ Tick

Spec == Init /\ [][Next]_vars

----------------------------------------------------------------------------
(* Reconciliation: C1 - C5 *)

\* A successful update has just returned: existingFiles is still the prior
\* state it was given, videos and now are what it saw.
Returned == phase = "ready" /\ pc = "returned"

Succeeded == Returned /\ ~errorLogged

Passing == {i \in 1..Len(videos) : FilterCallback(videos[i], filters, now) = "keep"}

PassingIds == {FileId(channelId, videos[i].id, mode) : i \in Passing}

Added == {k \in DOMAIN updates : updates[k].action = "add"}

Deleted == {k \in DOMAIN updates : updates[k].action = "delete"}

\* C1: a successful update in one of the five modes returns an add entry for
\* exactly the identifiers of the videos passing the filter that are no key of
\* the prior state, each with the payload of the mode's content fetcher.
C1_AddsExactlyNew ==
    (Succeeded /\ mode \in Modes) =>
        /\ Added = PassingIds \ existingFiles
        /\ \A i \in Passing :
              LET k == FileId(channelId, videos[i].id, mode)
              IN k \notin existingFiles =>
                    updates[k] = [action |-> "add",
                                  content |-> Content(videos[i], mode, includeHeader)]

\* Scenario A: empty prior state, filtered set {v1, v2}, mode video.
C1_Witness ==
    /\ Succeeded /\ mode = "video" /\ existingFiles = {}
    /\ PassingIds = {FileId(channelId, "v1", "video"), FileId(channelId, "v2", "video")}
    /\ DOMAIN updates = PassingIds
    /\ updates[FileId(channelId, "v1", "video")] =
          [action |-> "add", content |-> "https://www.youtube.com/watch?v=v1"]
    /\ updates[FileId(channelId, "v2", "video")] =
          [action |-> "add", content |-> "https://www.youtube.com/watch?v=v2"]

\* C2: without the no-delete flag, a successful update returns a delete entry
\* without content for exactly the keys of the prior state that identify no
\* video passing the filter.
C2_DeletesExactlyStale ==
    (Succeeded /\ ~noDelete) =>
        /\ Deleted = existingFiles \ PassingIds
        /\ \A k \in Deleted : updates[k] = [action |-> "delete"]

\* Scenario B: prior state {id(v1)}, v1 still listed but filtered out, v2 passing.
C2_Witness ==
    /\ Succeeded /\ ~noDelete
    /\ \E i \in 1..Len(videos) : videos[i].id = "v1"
    /\ existingFiles = {FileId(channelId, "v1", mode)}
    /\ PassingIds = {FileId(channelId, "v2", mode)}
    /\ Deleted = {FileId(channelId, "v1", mode)}
    /\ Added = {FileId(channelId, "v2", mode)}

\* C3: with the no-delete flag no update returns a delete entry, and a key
\* of the store stays in the store whatever happens to its video.
C3_NoDeleteKeepsStore ==
    [][noDelete' => /\ \A k \in DOMAIN updates' : updates'[k].action # "delete"
                    /\ (noDelete => existingFiles \subseteq existingFiles')]_vars

\* Scenario C: the flag set, prior state {id(v1)}, v1 filtered out, v2 passing:
\* only add id(v2).
C3_Witness ==
    /\ Succeeded /\ noDelete
    /\ existingFiles = {FileId(channelId, "v1", mode)}
    /\ PassingIds = {FileId(channelId, "v2", mode)}
    /\ DOMAIN updates = {FileId(channelId, "v2", mode)}
    /\ updates[FileId(channelId, "v2", mode)].action = "add"

\* The ChangeSet of a second run, on the same catalog at the same instant,
\* against the prior state with the returned ChangeSet applied.
SecondChangeSet ==
    LET second == TryUpdate(apiUp, videos, ApplyChanges(existingFiles, updates),
                            now, channelId, mode, noDelete, includeHeader, filters)
    IN IF second.threw THEN EmptyUpdates ELSE second.value

\* C4: applying the returned ChangeSet to the prior state and running update
\* again on the same filtered catalog yields the empty ChangeSet.
C4_FixedPoint == Returned => SecondChangeSet = EmptyUpdates

C4_Witness == Succeeded /\ Added # {} /\ Deleted # {}

\* A step of the run that has just returned failed: the API rejected, the
\* filter threw, or the content switch threw on a new video.
StepFailed ==
    \/ ~apiUp
    \/ applyFiltersThrows(videos, filters, now)
    \/ /\ ContentThrows(mode)
       /\ \E i \in Passing : FileId(channelId, videos[i].id, mode) \notin existingFiles

\* C5: an update run in which a step fails returns the empty ChangeSet.
C5_FailureReturnsEmpty ==
    Returned => /\ StepFailed => errorLogged
                /\ errorLogged => updates = EmptyUpdates

\* The content switch threw on a new video while stale keys were in the store.
C5_Witness ==
    /\ Returned /\ errorLogged /\ apiUp /\ ContentThrows(mode) /\ ~noDelete
    /\ existingFiles \ PassingIds # {}
    /\ updates = EmptyUpdates

----------------------------------------------------------------------------
(* The filter on its own: one video, every combination of filter options,  *)
(* init, then applyFilters at some instant.                                *)

MaxMagnitude == 2

DigitChar(d) ==
    CASE d = 0 -> "0" [] d = 1 -> "1" [] d = 2 -> "2" [] d = 3 -> "3"
      [] d = 4 -> "4" [] d = 5 -> "5" [] d = 6 -> "6" [] d = 7 -> "7"
      [] d = 8 -> "8" [] d = 9 -> "9"

\* The decimal numeral of n.
RECURSIVE Numeral(_)
Numeral(n) ==
    IF n < 10 THEN <<DigitChar(n)>>
    ELSE Append(Numeral(n \div 10), DigitChar(n % 10))

\* The dropAfter expression "<n><unit>".
DropExpr(n, unit) == Append(Numeral(n), unit)

DropAfterOptions ==
    {None} \cup {Some(DropExpr(n, unit)) :
                    n \in 1..MaxMagnitude, unit \in DropUnits \cup {"x"}}

AllFilterOptions ==
    [titleIncludes : {None, Some(Tut)},
     durationMoreThan : {None, Some(<<"0">>), Some(<<"3", "0", "1">>)},
     durationLessThan : {None, Some(<<"0">>), Some(<<"6", "0", "0">>)},
     dropAfter : DropAfterOptions,
     startDate : {None, Some(T0 - 100 * SecondsPerDay)}]

FilterConfigs ==
    {MakeConfig(Some("chan"), None, None, None, fo) : fo \in AllFilterOptions}

\* Ages, in days at T0, of the videos of VideoUniverse.
AgeDays == {1, 7, 30, 365, 400}

VideoUniverse ==
    [id : {"u"},
     title : {None, Some(<<>>), Some(Tutorial), Some(Vlog)},
     channelTitle : {None},
     publishedAt : {None} \cup {Some(T0 - k * SecondsPerDay) : k \in AgeDays},
     duration : {None, Some(<<"P", "T", "1", "0", "M", "5", "0", "S">>), Some(<<"P", "T", "5", "M">>),
                 Some(<<"P", "T">>)},
     thumbnail : {None},
     transcript : {None}]

\* applyFilters on the listed videos, as update calls it.
applyFiltersCall ==
    /\ phase = "ready"
    /\ pc = "idle"
    /\ filteredVideos' = IF applyFiltersThrows(videos, filters, now) THEN Throw
                         ELSE Ok(Ids(applyFilters(videos, filters, now)))
    /\ pc' = "filtered"
    /\ UNCHANGED <<config, credentials, shopVars, videos, now, apiUp, existingFiles, updates,
                   errorLogged, probe>>

InitFilter ==
    /\ config \in FilterConfigs
    /\ credentials = Some("KEY")
    /\ phase = "constructed"
    /\ initError = None
    /\ channelId = None
    /\ mode = None
    /\ noDelete = FALSE
    /\ includeHeader = TRUE
    /\ filters = None
    /\ videos \in {<<video>> : video \in VideoUniverse}
    /\ now = T0
    /\ apiUp = TRUE
    /\ existingFiles = {}
    /\ pc = "idle"
    /\ updates = EmptyUpdates
    /\ errorLogged = FALSE
    /\ filteredVideos = Ok(<<>>)
    /\ probe = None

NextFilter ==
    \/ init
    \/ Tick
    \/ applyFiltersCall

SpecFilter == InitFilter /\ [][NextFilter]_vars

----------------------------------------------------------------------------
(* The identity scheme on its own: the file ids of two (channel, video,    *)
(* mode) triples.                                                          *)

ChannelIds == {"a", "a-b", "b"}

VideoIds == {"c", "b-c", "d"}

Triples == [channel : ChannelIds, video : VideoIds, mode : Modes]

identify ==
    /\ probe # None
    /\ probe[1].ids = None
    /\ probe' = Some([probe[1] EXCEPT !.ids =
                        Some(<<FileId(probe[1].a.channel, probe[1].a.video, probe[1].a.mode),
                               FileId(probe[1].b.channel, probe[1].b.video, probe[1].b.mode)>>)])
    /\ UNCHANGED <<config, credentials, shopVars, videos, now, apiUp, existingFiles, pc, updates,
                   errorLogged, filteredVideos>>

InitIdentity ==
    /\ config = MakeConfig(None, None, None, None, NoFilters)
    /\ credentials = None
    /\ phase = "constructed"
    /\ initError = None
    /\ channelId = None
    /\ mode = None
    /\ noDelete = FALSE
    /\ includeHeader = TRUE
    /\ filters = None
    /\ videos = <<>>
    /\ now = T0
    /\ apiUp = TRUE
    /\ existingFiles = {}
    /\ pc = "idle"
    /\ updates = EmptyUpdates
    /\ errorLogged = FALSE
    /\ filteredVideos = Ok(<<>>)
    /\ probe \in {Some([a |-> x, b |-> y, ids |-> None]) : x \in Triples, y \in Triples}

NextIdentity == identify

SpecIdentity == InitIdentity /\ [][NextIdentity]_vars

----------------------------------------------------------------------------
(* parseDuration on its own: duration strings with optional H, M and S     *)
(* components, and strings in which no component matches.                  *)

MaxComponent == 11

Components == {None} \cup {Some(n) : n \in 0..MaxComponent}

\* "<n><letter>" for a component that is present, nothing otherwise.
DurationPart(o, letter) ==
    IF o = None THEN <<>> ELSE Append(Numeral(o[1]), letter)

\* The duration string "PT<h>H<m>M<s>S".
DurationText(h, m, s) ==
    <<"P", "T">> \o DurationPart(h, "H") \o DurationPart(m, "M") \o DurationPart(s, "S")

\* Strings in which no component matches.
MalformedDurations ==
    { <<"g", "a", "r", "b", "a", "g", "e">>, <<>>, <<"P">>, <<"5", "M">>,
      <<"P", "5", "M">>, <<"P", "T", "M">>, <<"P", "T", "x", "S">>,
      <<"T", "1", "H">> }

DurationProbes ==
    {[text |-> DurationText(h, m, s), h |-> h, m |-> m, s |-> s, result |-> None] :
        h \in Components, m \in Components, s \in Components}
    \cup {[text |-> t, h |-> None, m |-> None, s |-> None, result |-> None] :
            t \in MalformedDurations}

parseDurationCall ==
    /\ probe # None
    /\ probe[1].result = None
    /\ probe' = Some([probe[1] EXCEPT !.result = Some(parseDuration(probe[1].text))])
    /\ UNCHANGED <<config, credentials, shopVars, videos, now, apiUp, existingFiles, pc, updates,
                   errorLogged, filteredVideos>>

InitDuration ==
    /\ config = MakeConfig(None, None, None, None, NoFilters)
    /\ credentials = None
    /\ phase = "constructed"
    /\ initError = None
    /\ channelId = None
    /\ mode = None
    /\ noDelete = FALSE
    /\ includeHeader = TRUE
    /\ filters = None
    /\ videos = <<>>
    /\ now = T0
    /\ apiUp = TRUE
    /\ existingFiles = {}
    /\ pc = "idle"
    /\ updates = EmptyUpdates
    /\ errorLogged = FALSE
    /\ filteredVideos = Ok(<<>>)
    /\ probe \in {Some(p) : p \in DurationProbes}

NextDuration == parseDurationCall

SpecDuration == InitDuration /\ [][NextDuration]_vars

----------------------------------------------------------------------------
(* Identity scheme: C6 *)

\* C6: two (channel, video, mode) triples that differ in a field have
\* different file ids, whatever characters the channel and video ids hold.
C6_IdentifierInjective ==
    (probe # None /\ probe[1].ids # None /\ probe[1].a # probe[1].b)
        => probe[1].ids[1][1] # probe[1].ids[1][2]

----------------------------------------------------------------------------
(* Filter engine: C7 - C10 *)

\* applyFilters has just run on the one listed video, at the instant now,
\* with the filters init built from config.
Filtered == phase = "ready" /\ pc = "filtered" /\ Len(videos) = 1

TheVideo == videos[1]

Kept == ~filteredVideos.threw /\ filteredVideos.value = <<TheVideo.id>>

Configured(o) == o # None /\ o[1] # <<>>

\* The dropAfter expression is absent or has one of the four units.
DropAfterWellFormed ==
    Configured(config.dropAfter) =>
        \E n \in 1..MaxMagnitude, unit \in {"d", "w", "m", "y"} :
            config.dropAfter = Some(DropExpr(n, unit))

\* The threshold of "<n><unit>", in seconds: days of 86400 s, weeks of 7 days,
\* months of 30 days, years of 365 days.
Threshold(n, unit) ==
    CASE unit = "d" -> n * 86400
      [] unit = "w" -> n * 7 * 86400
      [] unit = "m" -> n * 30 * 86400
      [] unit = "y" -> n * 365 * 86400

\* The video's age is strictly greater than the configured threshold.
Expired ==
    /\ TheVideo.publishedAt # None
    /\ \E n \in 1..MaxMagnitude, unit \in {"d", "w", "m", "y"} :
          /\ config.dropAfter = Some(DropExpr(n, unit))
          /\ now - TheVideo.publishedAt[1] > Threshold(n, unit)

TitlePasses ==
    Configured(config.titleIncludes) =>
        /\ TheVideo.title # None
        /\ RegExpTest(config.titleIncludes[1], TheVideo.title[1])

StartDatePasses ==
    (config.startDate # None /\ TheVideo.publishedAt # None) =>
        TheVideo.publishedAt[1] >= config.startDate[1]

ParsedDuration ==
    IF TheVideo.duration = None THEN 0 ELSE parseDuration(TheVideo.duration[1])

MinDurationPasses ==
    Configured(config.durationMoreThan) =>
        ParsedDuration >= ParseInt(config.durationMoreThan[1])

MaxDurationPasses ==
    Configured(config.durationLessThan) =>
        ParsedDuration <= ParseInt(config.durationLessThan[1])

\* C7: applyFilters keeps a video if and only if it passes every configured
\* predicate: title, start date, minimum duration, maximum duration, expiry.
C7_KeptIffAllPass ==
    (Filtered /\ DropAfterWellFormed) =>
        (Kept <=> /\ TitlePasses
                  /\ StartDatePasses
                  /\ MinDurationPasses
                  /\ MaxDurationPasses
                  /\ ~Expired)

\* C8: with a title pattern configured, a video without a title is not kept.
C8_UntitledExcluded ==
    (Filtered /\ Configured(config.titleIncludes) /\ TheVideo.title = None)
        => ~Kept

\* C9: a kept video's parsed duration (0 without a duration) is at least the
\* configured minimum and at most the configured maximum.
C9_DurationWithinBounds ==
    (Filtered /\ Kept) => MinDurationPasses /\ MaxDurationPasses

OnlyDropAfter ==
    /\ config.titleIncludes = None
    /\ config.startDate = None
    /\ config.durationMoreThan = None
    /\ config.durationLessThan = None

\* C10: a video is expired iff its age is strictly greater than magnitude
\* times the unit (1, 7, 30, 365 days): an expired video is never kept, and
\* with no other filter configured a video that is not expired is kept.
C10_ExpiredIffOlderThanThreshold ==
    (Filtered /\ DropAfterWellFormed /\ Configured(config.dropAfter)
        /\ TheVideo.publishedAt # None) =>
        /\ Expired => ~Kept
        /\ (OnlyDropAfter /\ ~Expired) => Kept

\* Published 400 days ago: dropped under "1y".
C10_Witness ==
    /\ Filtered /\ OnlyDropAfter
    /\ config.dropAfter = Some(<<"1", "y">>)
    /\ TheVideo.publishedAt = Some(now - 400 * 86400)
    /\ ~Kept

----------------------------------------------------------------------------
(* Configuration errors: C11 - C13 *)

\* The configured dropAfter expression ends in a unit other than d, w, m, y.
UnknownDropUnit ==
    /\ Configured(config.dropAfter)
    /\ config.dropAfter[1][Len(config.dropAfter[1])] \notin {"d", "w", "m", "y"}

\* C11: a dropAfter expression with an unknown unit makes init fail, and no
\* update run raises (and swallows) the error while filtering.
C11_UnknownUnitRejectedAtInit ==
    UnknownDropUnit =>
        /\ phase # "ready"
        /\ ~(pc = "returned" /\ errorLogged)

\* C12: a run configured with a mode outside the five content modes returns
\* no add and no delete entry.
C12_UnknownModeReturnsNothing ==
    (Returned /\ mode \notin {"metadata", "thumbnail", "transcript", "video", "audio"})
        => updates = EmptyUpdates

Missing(o) == o = None \/ o = Some("")

\* C13: init fails, naming the missing field, when the API key or the
\* channelId is absent or empty; otherwise it succeeds, and mode, noDelete and
\* includeHeader default to 'metadata', false and true.
C13_InitRequiresKeyAndChannel ==
    /\ phase = "failed" =>
          /\ Missing(credentials) \/ Missing(config.channelId)
          /\ Missing(credentials) => initError = Some("YouTube API key is required.")
          /\ ~Missing(credentials) => initError = Some("channelId is required in config.")
    /\ phase = "ready" =>
          /\ ~Missing(credentials) /\ ~Missing(config.channelId)
          /\ initError = None
          /\ channelId = config.channelId[1]
          /\ config.mode = None => mode = "metadata"
          /\ ~Missing(config.mode) => mode = config.mode[1]
          /\ config.noDelete = None => noDelete = FALSE
          /\ config.includeHeader = None => includeHeader = TRUE

\* init was given a key and an empty channelId, and threw.
C13_Witness ==
    /\ phase = "failed"
    /\ credentials = Some("KEY")
    /\ config.channelId = Some("")
    /\ initError = Some("channelId is required in config.")

----------------------------------------------------------------------------
(* Transcript fallback, expiry across runs, shape of the ChangeSet: C14 - C16 *)

\* C14: in transcript mode, when nothing else fails, a video whose transcript
\* cannot be fetched does not abort the run: every new video gets an add
\* entry, with 'Transcript not available' as content where the fetch failed,
\* and the deletes are emitted.
C14_TranscriptFailureDegrades ==
    (Returned /\ mode = "transcript" /\ apiUp
        /\ ~applyFiltersThrows(videos, filters, now)) =>
        /\ ~errorLogged
        /\ \A i \in Passing :
              LET k == FileId(channelId, videos[i].id, mode)
              IN k \notin existingFiles =>
                    /\ k \in Added
                    /\ videos[i].transcript = None =>
                          updates[k].content = "Transcript not available"
        /\ ~noDelete => existingFiles \ PassingIds \subseteq Deleted

\* One new video without a transcript, one with, and a stale key.
C14_Witness ==
    /\ Succeeded /\ mode = "transcript"
    /\ \E i, j \in Passing :
          LET ki == FileId(channelId, videos[i].id, mode)
              kj == FileId(channelId, videos[j].id, mode)
          IN /\ videos[i].transcript = None /\ videos[j].transcript # None
             /\ ki \in Added /\ kj \in Added
             /\ updates[ki].content = "Transcript not available"
             /\ updates[kj].content # "Transcript not available"
    /\ Deleted # {}

\* The listed video i is older than the configured dropAfter threshold.
ExpiredInCatalog(i) ==
    /\ videos[i].publishedAt # None
    /\ \E n \in 1..MaxMagnitude, unit \in {"d", "w", "m", "y"} :
          /\ config.dropAfter = Some(DropExpr(n, unit))
          /\ now - videos[i].publishedAt[1] > Threshold(n, unit)

FetchedIds ==
    IF ~apiUp \/ applyFiltersThrows(videos, filters, now) THEN {}
    ELSE LET new == NewVideos(applyFilters(videos, filters, now), existingFiles,
                              channelId, mode)
         IN {FileId(channelId, new[i].id, mode) : i \in 1..Len(new)}

\* C16: a returned ChangeSet holds only add and delete entries; add keys are
\* absent from the prior state and delete keys present in it; an id in the
\* prior state and in the filtered set has no entry and is not fetched.
C16_ChangeSetShape ==
    Returned =>
        /\ \A k \in DOMAIN updates : updates[k].action \in {"add", "delete"}
        /\ Added \cap existingFiles = {}
        /\ Deleted \subseteq existingFiles
        /\ Added \cap Deleted = {}
        /\ \A k \in existingFiles \cap PassingIds :
              k \notin DOMAIN updates /\ k \notin FetchedIds

\* A run that adds, deletes and leaves one materialized video untouched.
C16_Witness ==
    /\ Succeeded /\ Added # {} /\ Deleted # {}
    /\ existingFiles \cap PassingIds # {}

----------------------------------------------------------------------------
(* parseDuration: C17 *)

\* The value a component contributes: 0 when it is missing.
ComponentValue(o) == IF o = None THEN 0 ELSE o[1]

\* C17: parseDuration returns hours * 3600 + minutes * 60 + seconds, a missing
\* component counting as zero, and 0 when no component matches; 'PT1H2M3S'
\* gives 3723, 'PT5M' 300, 'PT' 0 and 'garbage' 0; the result is a
\* non-negative integer.
C17_ParseDurationSums ==
    (probe # None /\ probe[1].result # None) =>
        LET p == probe[1]
            r == p.result[1]
        IN /\ r = ComponentValue(p.h) * 3600 + ComponentValue(p.m) * 60
                    + ComponentValue(p.s)
           /\ r \in Nat
           /\ Str(p.text) = "PT1H2M3S" => r = 3723
           /\ Str(p.text) = "PT5M" => r = 300
           /\ Str(p.text) = "PT" => r = 0
           /\ Str(p.text) = "garbage" => r = 0

C17_Witness ==
    /\ probe # None
    /\ Str(probe[1].text) = "PT1H2M3S"
    /\ probe[1].result = Some(3723)

====
